---- MODULE Spec2Model ----
(***************************************************************************)
(* LuxeMatch (src/App.tsx): the App component's state, the handlers that   *)
(* change it (typing, the Style Me button, the Enter key, the completion   *)
(* of ai.models.generateContent) and the getProduct lookup the outfit grid *)
(* is rendered with.                                                       *)
(*                                                                         *)
(* Strings are sequences of one-character strings, so that trim() and the  *)
(* exact comparison with 'NONE' are computed, not assumed.                 *)
(***************************************************************************)
EXTENDS Naturals, Sequences, FiniteSets

VARIABLES
    catalog,         \* products (imported from ./data): a sequence of Product
    query,           \* useState('')                          App.tsx:21
    loading,         \* useState(false)                       App.tsx:22
    recommendation,  \* useState<RecommendationIds|null>(null) App.tsx:23
    error,           \* useState<string|null>(null)           App.tsx:24
    inflight,        \* invocations suspended at the await of App.tsx:58
    started,         \* number of generateContent calls issued so far
    recOwner,        \* invocation whose setRecommendation wrote recommendation
    errOwner,        \* invocation whose setError wrote error
    event,           \* the handler that ran last
    outfit,          \* the four cards of the outfit grid     App.tsx:187-192
    lookup           \* the last direct call of getProduct and its result

vars == <<catalog, query, loading, recommendation, error, inflight, started,
          recOwner, errOwner, event, outfit, lookup>>

----------------------------------------------------------------------------
(* Bounds *)

\* longest query typed into the input
MaxQueryLen == 2

\* number of handleStyleMe invocations that get past the blank-query guard
MaxInvocations == 3

----------------------------------------------------------------------------
(* Strings *)

Whitespace == {" "}

QueryChars == {" ", "a"}

RECURSIVE StringsUpTo(_, _)
StringsUpTo(chars, n) ==
    IF n = 0 THEN {<<>>}
    ELSE LET shorter == StringsUpTo(chars, n - 1)
         IN  shorter \cup {Append(s, c) : s \in shorter, c \in chars}

Queries == StringsUpTo(QueryChars, MaxQueryLen)

RECURSIVE TrimStart(_)
TrimStart(s) ==
    IF s = <<>> THEN s
    ELSE IF Head(s) \in Whitespace THEN TrimStart(Tail(s)) ELSE s

RECURSIVE TrimEnd(_)
TrimEnd(s) ==
    IF s = <<>> THEN s
    ELSE IF s[Len(s)] \in Whitespace THEN TrimEnd(SubSeq(s, 1, Len(s) - 1))
    ELSE s

\* a trim that forgets to trim: the guard would then be `!query`
TrimNothing(s) == s

\* String.prototype.trim, as used by query.trim()
Trim(s) == TrimEnd(TrimStart(s))

----------------------------------------------------------------------------
(* Values *)

\* null (recommendation, error) and undefined (getProduct, response.text)
Null == [type |-> "null", val |-> <<>>]
Undefined == [type |-> "undefined", val |-> <<>>]

\* JSON values of the non-identifier fields
Str(s) == [type |-> "string", val |-> <<s>>]
Arr(xs) == [type |-> "array", val |-> xs]

ErrorMessage == Str("Our stylists are currently busy (AI Error). Please try again.")

\* the literal compared with in getProduct
NONE == <<"N", "O", "N", "E">>

A1 == <<"A", "1">>
B2 == <<"B", "2">>
C3 == <<"C", "3">>
D4 == <<"D", "4">>
Z9 == <<"Z", "9">>
none == <<"n", "o", "n", "e">>
NoNe == <<"N", "o", "N", "e">>

Product(id, name) ==
    [ProductID |-> id, ProductName |-> name, ProductBrand |-> "Luxe",
     Gender |-> "Women", Price |-> 999, NumImages |-> 1,
     Description |-> "d", PrimaryColor |-> "Black"]

\* the sample catalog: one product per slot
ExampleCatalog ==
    <<Product(A1, "Top"), Product(B2, "Bottom"),
      Product(C3, "Footwear"), Product(D4, "Accessory")>>

\* a catalog one of whose products has the ProductID "NONE"
SentinelCatalog == <<Product(A1, "Top"), Product(NONE, "Bottom")>>

\* a catalog one of whose products has the ProductID "none"
LowerCaseCatalog == <<Product(A1, "Top"), Product(none, "Bottom")>>

\* catalogs with unique ProductIDs
Catalogs == {ExampleCatalog, <<>>, SentinelCatalog, LowerCaseCatalog}

\* identifiers the model may answer with
IdUniverse == {A1, B2, C3, D4, NONE, none, NoNe, Z9}

\* interface RecommendationIds: the object JSON.parse returns for an answer
\* that follows the response schema
RecommendationIds(top, bottom, footwear, accessory) ==
    [top_id |-> top, bottom_id |-> bottom, footwear_id |-> footwear,
     accessory_id |-> accessory, style_tags |-> Arr(<<"chic">>),
     color_palette |-> Arr(<<"black">>), reasoning |-> Str("x"),
     occasion_title |-> Str("Y")]

ExampleAnswer == RecommendationIds(A1, NONE, C3, D4)
UnmatchedAnswer == RecommendationIds(Z9, Z9, Z9, Z9)

\* style_tags a single string instead of a list
TagsAsString == [ExampleAnswer EXCEPT !.style_tags = Str("chic")]

\* reasoning missing
MissingReasoning == [ExampleAnswer EXCEPT !.reasoning = Undefined]

\* response.text: absent, "", text that is not JSON, or the JSON text of a value
NoText == [kind |-> "undefined", json |-> Null]
EmptyText == [kind |-> "empty", json |-> Null]
GarbageText == [kind |-> "garbage", json |-> Null]
JsonText(v) == [kind |-> "json", json |-> v]

\* the answers of the stateful specification: every branch of lines 79-94
ResponseTexts ==
    {NoText, EmptyText, GarbageText, JsonText(Null), JsonText(ExampleAnswer),
     JsonText(UnmatchedAnswer), JsonText(TagsAsString),
     JsonText(MissingReasoning)}

\* every answer that follows the schema, over IdUniverse
WellFormedTexts ==
    {JsonText(RecommendationIds(t, b, f, a)) :
        t \in IdUniverse, b \in IdUniverse, f \in IdUniverse, a \in IdUniverse}

\* if (response.text): undefined and "" are falsy
Truthy(text) == text.kind \notin {"undefined", "empty"}

\* JSON.parse(response.text) returns a value or throws SyntaxError
ParseThrows(text) == text.kind # "json"
JSONparse(text) == text.json

----------------------------------------------------------------------------
(* getProduct and the outfit grid *)

CatalogIds == {catalog[i].ProductID : i \in DOMAIN catalog}

\* String(id) of a string is that string
StringOf(id) == id

\* p => p.ProductID === id || p.ProductID === String(id)
Matches(p, id) == p.ProductID = id \/ p.ProductID = StringOf(id)

\* products.find(...): the first product that satisfies the test
Find(products, id) ==
    LET hits == {i \in DOMAIN products : Matches(products[i], id)}
    IN  IF hits = {} THEN Undefined
        ELSE products[CHOOSE i \in hits : \A j \in hits : i <= j]

\* a lookup that falls back to the first product when nothing matches
getProductOrFirst(id) ==
    IF id = NONE THEN Undefined
    ELSE IF Find(catalog, id) = Undefined /\ catalog # <<>> THEN catalog[1]
    ELSE Find(catalog, id)

\* const getProduct = (id: string): Product | undefined
getProduct(id) ==
    IF id = NONE THEN Undefined
    ELSE Find(catalog, id)

\* a grid that shows no card at all as soon as one identifier is unmatched
OutfitGridAllOrNothing(rec) ==
    IF rec = Null THEN Null
    ELSE LET ids == {rec.top_id, rec.bottom_id, rec.footwear_id,
                     rec.accessory_id}
             all == \A id \in ids : getProduct(id) # Undefined
         IN  [top |-> IF all THEN getProduct(rec.top_id) ELSE Undefined,
              bottom |-> IF all THEN getProduct(rec.bottom_id) ELSE Undefined,
              footwear |->
                  IF all THEN getProduct(rec.footwear_id) ELSE Undefined,
              accessory |->
                  IF all THEN getProduct(rec.accessory_id) ELSE Undefined]

\* {recommendation && ( ... four ProductCards ... )}
OutfitGrid(rec) ==
    IF rec = Null THEN Null
    ELSE [top |-> getProduct(rec.top_id),
          bottom |-> getProduct(rec.bottom_id),
          footwear |-> getProduct(rec.footwear_id),
          accessory |-> getProduct(rec.accessory_id)]

----------------------------------------------------------------------------
(* The component *)

Init ==
    /\ catalog = ExampleCatalog
    /\ query = <<>>
    /\ loading = FALSE
    /\ recommendation = Null
    /\ error = Null
    /\ inflight = {}
    /\ started = 0
    /\ recOwner = 0
    /\ errOwner = 0
    /\ event = "mount"
    /\ outfit = Null
    /\ lookup = Null

\* onChange={(e) => setQuery(e.target.value)}
SetQuery(q) ==
    /\ q # query
    /\ query' = q
    /\ event' = "change"
    /\ UNCHANGED <<catalog, loading, recommendation, error, inflight, started,
                   recOwner, errOwner, outfit, lookup>>

\* handleStyleMe up to its await: lines 28-58
handleStyleMe ==
    IF Trim(query) = <<>>
    THEN UNCHANGED <<catalog, query, loading, recommendation, error, inflight,
                     started, recOwner, errOwner, outfit, lookup>>
    ELSE /\ started < MaxInvocations
         /\ loading' = TRUE
         /\ error' = Null
         /\ recommendation' = Null
         /\ started' = started + 1
         /\ inflight' = inflight \cup {started + 1}
         /\ recOwner' = 0
         /\ errOwner' = 0
         /\ outfit' = OutfitGrid(Null)
         /\ UNCHANGED <<catalog, query, lookup>>

\* <button onClick={handleStyleMe} disabled={loading || !query}>
ClickStyleMe ==
    /\ ~(loading \/ query = <<>>)
    /\ event' = "click"
    /\ handleStyleMe

\* onKeyDown={(e) => e.key === 'Enter' && handleStyleMe()}
PressEnter ==
    /\ event' = "enter"
    /\ handleStyleMe

\* generateContent rejects: catch, then finally
GenerateContentRejects ==
    \E i \in inflight :
        /\ inflight' = inflight \ {i}
        /\ error' = ErrorMessage
        /\ errOwner' = i
        /\ loading' = FALSE
        /\ event' = "rejected"
        /\ UNCHANGED <<catalog, query, recommendation, started, recOwner,
                       outfit, lookup>>

\* generateContent resolves: lines 79-94
GenerateContentResolves(texts) ==
    \E i \in inflight, text \in texts :
        /\ inflight' = inflight \ {i}
        /\ loading' = FALSE
        /\ IF ~Truthy(text)
           THEN /\ event' = "notext"
                /\ UNCHANGED <<recommendation, recOwner, error, errOwner,
                               outfit>>
           ELSE IF ParseThrows(text)
           THEN /\ event' = "unparseable"
                /\ error' = ErrorMessage
                /\ errOwner' = i
                /\ UNCHANGED <<recommendation, recOwner, outfit>>
           ELSE /\ event' = "parsed"
                /\ recommendation' = JSONparse(text)
                /\ recOwner' = i
                /\ outfit' = OutfitGrid(JSONparse(text))
                /\ UNCHANGED <<error, errOwner>>
        /\ UNCHANGED <<catalog, query, started, lookup>>

Next ==
    \/ \E q \in Queries : SetQuery(q)
    \/ ClickStyleMe
    \/ PressEnter
    \/ GenerateContentRejects
    \/ GenerateContentResolves(ResponseTexts)

Spec == Init /\ [][Next]_vars

----------------------------------------------------------------------------
(* getProduct on every catalog and every well-formed answer *)

\* one call of getProduct
CallGetProduct(id) ==
    /\ lookup' = [id |-> id, result |-> getProduct(id)]
    /\ UNCHANGED <<catalog, query, loading, recommendation, error, inflight,
                   started, recOwner, errOwner, event, outfit>>

\* the state after a query was typed and Enter pressed, for any catalog
InitResolve ==
    /\ catalog \in Catalogs
    /\ query = <<"a">>
    /\ loading = TRUE
    /\ recommendation = Null
    /\ error = Null
    /\ inflight = {1}
    /\ started = 1
    /\ recOwner = 0
    /\ errOwner = 0
    /\ event = "enter"
    /\ outfit = Null
    /\ lookup = Null

NextResolve ==
    \/ GenerateContentResolves(WellFormedTexts)
    \/ \E id \in IdUniverse : CallGetProduct(id)

SpecResolve == InitResolve /\ [][NextResolve]_vars

----------------------------------------------------------------------------
(* Properties *)

Triggers == {"click", "enter"}
Completions == {"rejected", "notext", "unparseable", "parsed"}

\* a query that is empty or holds whitespace only
IsBlank(q) == \A i \in DOMAIN q : q[i] \in Whitespace

\* the shape interface RecommendationIds declares
HasSchemaShape(v) ==
    /\ v # Null
    /\ v.style_tags.type = "array"
    /\ v.color_palette.type = "array"
    /\ v.reasoning.type = "string"
    /\ v.occasion_title.type = "string"

LowerCase == <<"a", "b", "c", "d", "e", "f", "g", "h", "i", "j", "k", "l", "m",
               "n", "o", "p", "q", "r", "s", "t", "u", "v", "w", "x", "y", "z">>
UpperCase == <<"A", "B", "C", "D", "E", "F", "G", "H", "I", "J", "K", "L", "M",
               "N", "O", "P", "Q", "R", "S", "T", "U", "V", "W", "X", "Y", "Z">>

UpperChar(c) ==
    IF \E i \in DOMAIN LowerCase : LowerCase[i] = c
    THEN UpperCase[CHOOSE i \in DOMAIN LowerCase : LowerCase[i] = c]
    ELSE c

ToUpperCase(s) == [i \in DOMAIN s |-> UpperChar(s[i])]

Slots == {"top", "bottom", "footwear", "accessory"}

SlotId(rec, slot) ==
    CASE slot = "top" -> rec.top_id
      [] slot = "bottom" -> rec.bottom_id
      [] slot = "footwear" -> rec.footwear_id
      [] slot = "accessory" -> rec.accessory_id

\* C1: at most one generation request is outstanding at any time (a trigger
\* that arrives while a request is outstanding issues no second request).
C1_SingleInFlight == Cardinality(inflight) <= 1

\* C2: a stale response is never applied: the recommendation shown, and the
\* error shown, were written by the most recently started invocation.
C2_NoStaleResult ==
    /\ recommendation # Null => recOwner = started
    /\ error # Null => errOwner = started

\* C3: triggering handleStyleMe (button or Enter) on an empty or
\* whitespace-only query issues no generation request and leaves loading,
\* error and recommendation unchanged.
C3_BlankQueryIgnored ==
    [][(event' \in Triggers /\ IsBlank(query))
         => UNCHANGED <<started, inflight, loading, error, recommendation>>]_vars

\* C3 witness: a trigger on a whitespace-only query while a recommendation
\* is displayed.
C3_Witness ==
    /\ event \in Triggers
    /\ query # <<>>
    /\ IsBlank(query)
    /\ recommendation # Null

\* C4: when an invocation completes, exactly one of recommendation and error
\* is set; an answer without text ends with the failure signalled.
C4_RecommendationOrFailure ==
    event \in Completions => ((recommendation # Null) # (error # Null))

\* C5: an answer that parses as JSON but does not have the shape of
\* RecommendationIds is never set as the recommendation.
C5_MalformedNeverSet ==
    recommendation # Null => HasSchemaShape(recommendation)

\* the result of a getProduct call: the entry with that ProductID, and the
\* absent marker for an identifier no entry has
LookupExact(l) ==
    l # Null =>
        /\ \A i \in DOMAIN catalog :
               catalog[i].ProductID = l.id => l.result = catalog[i]
        /\ l.id \notin CatalogIds => l.result = Undefined

\* the same, except for the entry whose ProductID is the literal "NONE"
LookupExactExceptSentinel(l) ==
    l # Null =>
        /\ \A i \in DOMAIN catalog :
               (catalog[i].ProductID = l.id /\ l.id # NONE)
                   => l.result = catalog[i]
        /\ l.id \notin CatalogIds => l.result = Undefined

\* C6 as claimed: for every catalog with unique ProductIDs getProduct returns
\* exactly the entry P for P.ProductID, the absent marker for every string
\* that is no ProductID, and leaves the catalog unchanged.
C6_LookupExact == [][catalog' = catalog /\ LookupExact(lookup')]_vars

\* C6 as amended: the same for every entry whose ProductID is not the
\* literal "NONE"; getProduct("NONE") is the absent marker in every catalog.
C6_LookupExactExceptSentinel ==
    [][/\ catalog' = catalog
       /\ LookupExactExceptSentinel(lookup')
       /\ (lookup' # Null /\ lookup'.id = NONE) => lookup'.result = Undefined
      ]_vars

\* C6 witness: getProduct was called with the ProductID of a catalog entry
\* and returned a product.
C6_Witness ==
    /\ lookup # Null
    /\ lookup.id \in CatalogIds
    /\ lookup.id # NONE
    /\ lookup.result # Undefined

\* C7: a bottom_id that is the sentinel in any casing ("none", "NONE",
\* "NoNe") resolves the bottom slot to the absent marker, in every catalog.
C7_SentinelAnyCasing ==
    (outfit # Null /\ ToUpperCase(recommendation.bottom_id) = NONE)
        => outfit.bottom = Undefined

\* C8 as claimed: after a well-formed answer a recommendation is set, with
\* its descriptive fields kept and no error, and each slot is populated
\* exactly when its own identifier is the ProductID of a catalog entry.
C8_SlotsIndependent ==
    event = "parsed" =>
        /\ recommendation # Null
        /\ error = Null
        /\ HasSchemaShape(recommendation)
        /\ \A slot \in Slots :
               outfit[slot] # Undefined
                   <=> SlotId(recommendation, slot) \in CatalogIds

\* C8 as amended: each slot is populated, with the entry of that ProductID,
\* exactly when its own identifier is the ProductID of a catalog entry and
\* is not the literal "NONE".
C8_SlotsIndependentExceptSentinel ==
    event = "parsed" =>
        /\ recommendation # Null
        /\ error = Null
        /\ HasSchemaShape(recommendation)
        /\ \A slot \in Slots :
               LET id == SlotId(recommendation, slot)
               IN  /\ outfit[slot] # Undefined
                       <=> (id \in CatalogIds /\ id # NONE)
                   /\ outfit[slot] # Undefined
                       => outfit[slot].ProductID = id

\* C8 witness: top_id matches no entry, the other three do: top is absent
\* and the other three slots are populated.
C8_Witness ==
    /\ event = "parsed"
    /\ recommendation # Null
    /\ recommendation.top_id \notin CatalogIds
    /\ outfit.top = Undefined
    /\ outfit.bottom # Undefined
    /\ outfit.footwear # Undefined
    /\ outfit.accessory # Undefined

\* C9: an invocation whose generation call fails, or whose answer cannot be
\* parsed, ends with the error message set and recommendation null.
C9_FailureEndsInError ==
    event \in {"rejected", "unparseable"}
        => (error = ErrorMessage /\ recommendation = Null)

\* C10: error and recommendation are never both set, and loading is true
\* whenever a generation request is outstanding.
C10_StateInvariant ==
    /\ ~(error # Null /\ recommendation # Null)
    /\ inflight # {} => loading

====
